---- MODULE Spec2Model ----
(***************************************************************************)
(* Model of the spaced-repetition store of rememberfiy: the Convex         *)
(* mutations createQuiz, updateQuizReview, deleteQuiz (convex/quizzes.ts,  *)
(* kept as src/unnamed/part_008) and recordQuizAttempt                     *)
(* (src/frontend/convex/quizAttempts.ts) over the tables of                *)
(* src/frontend/convex/schema.ts.                                          *)
(*                                                                         *)
(* Every handler is registered through Convex's mutation(...) wrapper and  *)
(* therefore runs as one serializable transaction: a handler is one        *)
(* action, and a handler that throws commits nothing.  The arguments of a  *)
(* call carry no value read from the store, so the moment a client issued  *)
(* the call has no influence on its effect; concurrent calls of several    *)
(* clients are the interleavings of these actions.                         *)
(*                                                                         *)
(* Time.  Date.now() is in milliseconds.  The model counts time in ticks   *)
(* of TickMs = 84375 ms, so that one day (86,400,000 ms = 2^10 * 84375)    *)
(* is 1024 ticks and 1.5^k days is a whole number of ticks for k <= 10;    *)
(* a duration of n ticks is n * TickMs milliseconds.  Within these bounds  *)
(* the double arithmetic of the handlers is exact.                         *)
(*                                                                         *)
(* The quiz page (src/frontend/app/quiz/page.tsx with the QuizScreen        *)
(* component, kept in src/unnamed/part_005) is one client of the store:    *)
(* its React state is part of the state, each event handler is one action, *)
(* and each awaited mutation of handleQuizComplete is one action, the run  *)
(* of the handler on the server.                                           *)
(*                                                                         *)
(* The page's generateQuiz (one call of the backend, one createQuiz) is    *)
(* modelled with its guards and refs, each await being one action.  The    *)
(* queries getQuizWithQuestions and getUserStats are actions that write    *)
(* nothing and leave what they return in response.                         *)
(*                                                                         *)
(* Document fields no modelled handler computes from (title, content,      *)
(* summary, fileType, fileName, difficulty, options, correctAnswer,        *)
(* explanation, answers, timeTaken) are stored verbatim by the code and    *)
(* are left out of the documents.                                          *)
(***************************************************************************)
EXTENDS Integers, Sequences, FiniteSets, TLC

\* ------------------------------------------------------------------ bounds
MaxQuizzes == 2        \* Spec, SpecStats, SpecQuestions: quizzes ever created
MaxAttempts == 1       \* Spec: attempts ever recorded
MaxStoreReviews == 1   \* Spec: cap on reviewCount
MaxReviews == 6        \* SpecReview: cap on reviewCount (1.5^k days is a
                       \* whole number of ticks for k <= 10)
MaxNowDays == 1        \* the clock stops advancing after this many days
MaxDueDays == 2        \* SpecDue: the clock stops advancing after this many days
MaxSessions == 2       \* SpecSession: times the quiz page is opened
MaxStatsAttempts == 2  \* SpecStats: attempts ever recorded
MaxGenerations == 3    \* SpecGenerate: runs of generateQuiz past its guards

\* --------------------------------------------------------------- constants
DayMs == 24 * 60 * 60 * 1000
TickMs == DayMs \div 1024
DayTicks == DayMs \div TickMs
\* the steps by which the clock advances between two handler runs
ClockSteps == {DayTicks}
\* SpecDue: one day, and one tick less than a day
DueClockSteps == {DayTicks - 1, DayTicks}

Users == {"u1", "u2"}
\* the ids a client can present: those createQuiz hands out; an id not yet
\* handed out, or handed out and deleted since, resolves to no document
QuizIds == 1..MaxQuizzes
\* (score, totalQuestions) arguments, v.number() each: valid pairs of every
\* band and on both boundaries, and pairs outside 0 <= score <= total, total > 0
ScorePairs ==
  { <<10, 10>>, <<9, 10>>, <<8, 10>>, <<7, 10>>, <<6, 10>>, <<0, 10>>,
    <<1, 1>>, <<2, 3>>, <<18, 20>>, <<14, 20>>, <<13, 20>>,
    <<0, 0>>, <<1, 0>>, <<11, 10>>, <<-1, 10>>, <<-9, -10>> }
\* Spec draws the scores of updateQuizReview and of recordQuizAttempt from
\* one pair of each band and one with score > totalQuestions
StorePairs == { <<10, 10>>, <<8, 10>>, <<0, 10>>, <<11, 10>> }
\* the questions argument of createQuiz (questionText only)
QuestionLists == { <<>>, <<"qa", "qb">> }

\* SpecQuestions: the questions argument of createQuiz, in several orders
\* and with a question text twice
OrderedLists ==
  { <<>>, <<"qa">>, <<"qa", "qb">>, <<"qb", "qa">>, <<"qb", "qa", "qb">> }
\* SpecStats: the score of the attempts (getUserStats counts the rows)
StatsPairs == { <<8, 10>> }

\* the quiz page: the questions of the backend's quiz, by their text; the
\* correct_answer of the JSON is a number or a string
BackendQuestions ==
  [qa |-> [type |-> "multiple-choice", correct_answer |-> <<"number", 1>>],
   qb |-> [type |-> "multiple-choice", correct_answer |-> <<"string", <<"1">>>>],
   qc |-> [type |-> "short-answer",
           correct_answer |-> <<"string", <<"O", "k">>>>]]
\* the quizzes the backend generates (response.quiz.questions, by text)
BackendQuizzes == { <<"qa">>, <<"qb", "qc">>, <<"qc", "qb">> }
\* uploadState.content of the learner's upload (longer than 10 characters)
UploadContent == "the uploaded content"
\* the option buttons of a multiple-choice question, by index
AnswerIndexes == 0..1
\* what the learner types into the input of a short-answer question
ShortAnswers == { <<"o", "K">>, <<"n", "o">> }

VARIABLES
  now,           \* Date.now(), in ticks
  quizzes,       \* table quizzes: _id -> document, for the existing documents
  nextQuizId,    \* the _id the next insert into quizzes gets
  questions,     \* table questions, in creation order
  quizAttempts,  \* table quizAttempts, in creation order
  nextAttemptId, \* the _id the next insert into quizAttempts gets
  response,      \* the last handler run: the call and what it returned or threw
  advances,      \* history: per quiz, the reviewCount each successful
                 \* updateQuizReview read, in order
  intervals,     \* history: per quiz, the reviewInterval of its last two
                 \* successful updateQuizReview runs, the older first
  convexUserId,  \* quiz page: <<the signed-in user>>, or <<>> for null
  quizState,     \* quiz page: the quizState of the app context (its quizId)
  localQuizState,\* quiz page: questions, currentQuestionIndex, score,
                 \* isComplete
  selectedAnswer,\* QuizScreen: the option chosen, or null
  shortAnswer,   \* QuizScreen: the text typed
  showResult,    \* QuizScreen: the answer was submitted
  pc,            \* quiz page: "start" before a quiz is shown, "quiz" while
                 \* QuizScreen runs, then the position of handleQuizComplete
  args,          \* quiz page: <<score, totalQuestions>> handed to
                 \* handleQuizComplete, <<>> before
  sessionNo,     \* history: the number of this opening of the quiz page
  calls,         \* history: the mutations handleQuizComplete awaited, of
                 \* every session, in order
  hasGeneratedRef,   \* quiz page: hasGeneratedRef.current
  currentContentRef, \* quiz page: currentContentRef.current
  isGeneratingQuiz,  \* quiz page: a run of generateQuiz is under way
  appError,          \* app context: error, <<the message>>, or <<>> for null
  generations,   \* history: the runs of generateQuiz past its guards: where
                 \* each is (at), the questions it got (texts), and whether
                 \* it has called createQuiz
  requested      \* history (SpecQuestions): per quiz, the questions argument
                 \* of the createQuiz that made it

\* the store with the clock, and the quiz page
store == <<now, quizzes, nextQuizId, questions, quizAttempts, nextAttemptId,
           response, advances, intervals>>
page == <<convexUserId, quizState, localQuizState, selectedAnswer,
          shortAnswer, showResult, pc, args, sessionNo, calls>>
generation == <<hasGeneratedRef, currentContentRef, isGeneratingQuiz, appError,
                generations>>
client == <<page, generation, requested>>
vars == <<store, client>>

\* ------------------------------------------------------------ pure helpers
RECURSIVE Pow(_, _)
Pow(b, n) == IF n = 0 THEN 1 ELSE b * Pow(b, n - 1)

\* the branch of the if/else-if/else chain taken for
\* performance = score / totalQuestions (IEEE double division):
\* x/0 is +Infinity for x > 0, -Infinity for x < 0 and NaN for x = 0, and
\* every comparison with NaN is false; for totalQuestions # 0 and integers of
\* this size the comparison of the rounded quotient with the literals 0.9 and
\* 0.7 agrees with the comparison of the exact fractions
BandStrict(score, totalQuestions) ==
  IF totalQuestions > 0
    THEN IF 10 * score > 9 * totalQuestions THEN "high"
         ELSE IF 10 * score > 7 * totalQuestions THEN "mid" ELSE "low"
  ELSE IF totalQuestions < 0
    THEN IF 10 * score < 9 * totalQuestions THEN "high"
         ELSE IF 10 * score < 7 * totalQuestions THEN "mid" ELSE "low"
  ELSE IF score > 0 THEN "high" ELSE "low"

Band(score, totalQuestions) ==
  IF totalQuestions > 0
    THEN IF 10 * score >= 9 * totalQuestions THEN "high"
         ELSE IF 10 * score >= 7 * totalQuestions THEN "mid" ELSE "low"
  ELSE IF totalQuestions < 0
    THEN IF 10 * score <= 9 * totalQuestions THEN "high"
         ELSE IF 10 * score <= 7 * totalQuestions THEN "mid" ELSE "low"
  ELSE IF score > 0 THEN "high" ELSE "low"

\* reviewInterval, in ticks
ReviewIntervalOldCount(band, reviewCount) ==
  IF band = "high" THEN Pow(2, reviewCount) * DayTicks
  ELSE IF band = "mid"
    THEN (Pow(3, reviewCount) * DayTicks) \div Pow(2, reviewCount)
  ELSE DayTicks

ReviewIntervalLowGrows(band, reviewCount) ==
  IF band = "high" THEN Pow(2, reviewCount + 1) * DayTicks
  ELSE IF band = "mid"
    THEN (Pow(3, reviewCount + 1) * DayTicks) \div Pow(2, reviewCount + 1)
  ELSE (reviewCount + 1) * DayTicks

ReviewInterval(band, reviewCount) ==
  IF band = "high" THEN Pow(2, reviewCount + 1) * DayTicks
  ELSE IF band = "mid"
    THEN (Pow(3, reviewCount + 1) * DayTicks) \div Pow(2, reviewCount + 1)
  ELSE DayTicks

\* ------------------------------------------------------------------- state
\* a handler run as its caller sees it: the call (op and the arguments quizId,
\* score, totalQuestions; 0 where the op has none) and its outcome: value is
\* <<v>> for a returned v and <<>> for none, error is the message thrown (""
\* when it returned)
Response(op, quizId, score, totalQuestions, error, value) ==
  [op |-> op, quizId |-> quizId, score |-> score,
   totalQuestions |-> totalQuestions, error |-> error, value |-> value]

\* JavaScript values of the quiz page: <<"number", n>>, <<"NaN">>,
\* <<"string", chars>> with chars a sequence of characters, <<"null">>; the
\* _id of a quiz is <<"id", n>> and a temporary id <<"temp", Date.now()>>
Null == <<"null">>
NaN == <<"NaN">>
Digits == <<"0", "1", "2", "3", "4", "5", "6", "7", "8", "9">>
IsDigit(c) == \E d \in 1..Len(Digits) : Digits[d] = c
DigitValue(c) == (CHOOSE d \in 1..Len(Digits) : Digits[d] = c) - 1

\* Number(v) for a number, and for a string of decimal digits or any other
\* characters without white space ("" is 0, a non-numeric string NaN)
RECURSIVE ParseDigits(_)
ParseDigits(chars) ==
  IF chars = <<>> THEN 0
  ELSE 10 * ParseDigits(SubSeq(chars, 1, Len(chars) - 1))
         + DigitValue(chars[Len(chars)])
Number(v) ==
  IF v[1] = "string"
    THEN IF \A i \in 1..Len(v[2]) : IsDigit(v[2][i])
           THEN <<"number", ParseDigits(v[2])>> ELSE NaN
    ELSE IF v[1] = "null" THEN <<"number", 0>> ELSE v

\* String(v) for a string and for a number n >= 0
RECURSIVE DigitsOf(_)
DigitsOf(n) ==
  IF n < 10 THEN <<Digits[n + 1]>>
  ELSE Append(DigitsOf(n \div 10), Digits[(n % 10) + 1])
String(v) == IF v[1] = "number" THEN <<"string", DigitsOf(v[2])>> ELSE v

\* a === b: same type and same value, NaN equal to nothing
StrictEquals(a, b) == a[1] = b[1] /\ a[1] # "NaN" /\ a = b

\* s.toLowerCase() over the letters in use
ToLowerCase(chars) ==
  [i \in 1..Len(chars) |->
     CASE chars[i] = "O" -> "o" [] chars[i] = "K" -> "k" [] OTHER -> chars[i]]
\* s.includes(t)
Includes(s, t) ==
  \E i \in 0..(Len(s) - Len(t)) : SubSeq(s, i + 1, i + Len(t)) = t

\* useState of localQuizState (page.tsx 58-63) and of QuizScreen
NoQuiz ==
  [questions |-> <<>>, currentQuestionIndex |-> 0,
   score |-> [correct |-> 0, incorrect |-> 0], isComplete |-> FALSE]

Init ==
  /\ convexUserId = <<"u1">>
  /\ quizState = [quizId |-> Null]
  /\ localQuizState = NoQuiz
  /\ selectedAnswer = Null
  /\ shortAnswer = <<>>
  /\ showResult = FALSE
  /\ pc = "start"
  /\ args = <<>>
  /\ sessionNo = 1
  /\ calls = <<>>
  /\ hasGeneratedRef = FALSE
  /\ currentContentRef = ""
  /\ isGeneratingQuiz = FALSE
  /\ appError = <<>>
  /\ generations = <<>>
  /\ requested = <<>>
  /\ now = 0
  /\ quizzes = <<>>
  /\ nextQuizId = 1
  /\ questions = <<>>
  /\ quizAttempts = <<>>
  /\ nextAttemptId = 1
  /\ response = Response("none", 0, 0, 0, "", <<>>)
  /\ advances = <<>>
  /\ intervals = <<>>

LastTwo(s) == IF Len(s) > 2 THEN Tail(s) ELSE s

\* ctx.db.get(id): the document, or null when there is none
Exists(quizId) == quizId \in DOMAIN quizzes

\* ----------------------------------------------------------------- actions
\* Date.now() moves on between two handler runs
AdvanceClock(d) ==
  /\ now' = now + d
  /\ response' = Response("none", 0, 0, 0, "", <<>>)
  /\ UNCHANGED <<quizzes, nextQuizId, questions, quizAttempts, nextAttemptId,
                 advances, intervals>>

\* mutation createQuiz
CreateQuizDueNow(userId, qs) ==
  /\ LET quizId == nextQuizId
         quiz == [userId |-> userId, createdAt |-> now,
                  lastReviewedAt |-> <<>>, nextReviewAt |-> now,
                  reviewCount |-> 0]
     IN /\ quizzes' = [id \in DOMAIN quizzes \cup {quizId} |->
                         IF id = quizId THEN quiz ELSE quizzes[id]]
        /\ questions' = questions \o
             [i \in 1..Len(qs) |->
                [quizId |-> quizId, questionText |-> qs[i], orderIndex |-> i - 1]]
        /\ advances' = [id \in DOMAIN advances \cup {quizId} |->
                          IF id = quizId THEN <<>> ELSE advances[id]]
        /\ intervals' = [id \in DOMAIN intervals \cup {quizId} |->
                           IF id = quizId THEN <<>> ELSE intervals[id]]
        /\ response' = Response("createQuiz", 0, 0, 0, "", <<quizId>>)
  /\ nextQuizId' = nextQuizId + 1
  /\ UNCHANGED <<now, quizAttempts, nextAttemptId>>

CreateQuiz(userId, qs) ==
  /\ LET quizId == nextQuizId
         quiz == [userId |-> userId, createdAt |-> now,
                  lastReviewedAt |-> <<>>, nextReviewAt |-> now + DayTicks,
                  reviewCount |-> 0]
     IN /\ quizzes' = [id \in DOMAIN quizzes \cup {quizId} |->
                         IF id = quizId THEN quiz ELSE quizzes[id]]
        /\ questions' = questions \o
             [i \in 1..Len(qs) |->
                [quizId |-> quizId, questionText |-> qs[i], orderIndex |-> i - 1]]
        /\ advances' = [id \in DOMAIN advances \cup {quizId} |->
                          IF id = quizId THEN <<>> ELSE advances[id]]
        /\ intervals' = [id \in DOMAIN intervals \cup {quizId} |->
                           IF id = quizId THEN <<>> ELSE intervals[id]]
        /\ response' = Response("createQuiz", 0, 0, 0, "", <<quizId>>)
  /\ nextQuizId' = nextQuizId + 1
  /\ UNCHANGED <<now, quizAttempts, nextAttemptId>>

\* mutation recordQuizAttempt; the response also carries the userId argument
RecordQuizAttemptNoTimestamp(quizId, userId, score, totalQuestions) ==
  /\ quizAttempts' = Append(quizAttempts,
       [id |-> nextAttemptId, quizId |-> quizId, userId |-> userId,
        score |-> score, totalQuestions |-> totalQuestions,
        completedAt |-> 0])
  /\ nextAttemptId' = nextAttemptId + 1
  /\ response' = [userId |-> userId] @@
       Response("recordQuizAttempt", quizId, score, totalQuestions,
                "", <<nextAttemptId>>)
  /\ UNCHANGED <<now, quizzes, nextQuizId, questions, advances, intervals>>

RecordQuizAttemptMarksReviewed(quizId, userId, score, totalQuestions) ==
  /\ quizAttempts' = Append(quizAttempts,
       [id |-> nextAttemptId, quizId |-> quizId, userId |-> userId,
        score |-> score, totalQuestions |-> totalQuestions,
        completedAt |-> now])
  /\ nextAttemptId' = nextAttemptId + 1
  /\ response' = [userId |-> userId] @@
       Response("recordQuizAttempt", quizId, score, totalQuestions,
                "", <<nextAttemptId>>)
  /\ quizzes' = [id \in DOMAIN quizzes |->
                   IF id = quizId
                     THEN [quizzes[id] EXCEPT !.lastReviewedAt = <<now>>]
                     ELSE quizzes[id]]
  /\ UNCHANGED <<now, nextQuizId, questions, advances, intervals>>

RecordQuizAttempt(quizId, userId, score, totalQuestions) ==
  /\ quizAttempts' = Append(quizAttempts,
       [id |-> nextAttemptId, quizId |-> quizId, userId |-> userId,
        score |-> score, totalQuestions |-> totalQuestions,
        completedAt |-> now])
  /\ nextAttemptId' = nextAttemptId + 1
  /\ response' = [userId |-> userId] @@
       Response("recordQuizAttempt", quizId, score, totalQuestions,
                "", <<nextAttemptId>>)
  /\ UNCHANGED <<now, quizzes, nextQuizId, questions, advances, intervals>>

\* mutation updateQuizReview: the thrown "Quiz not found"
NotFoundNull(quizId, score, totalQuestions) ==
  Response("updateQuizReview", quizId, score, totalQuestions, "", <<>>)

NotFound(quizId, score, totalQuestions) ==
  Response("updateQuizReview", quizId, score, totalQuestions,
           "Quiz not found", <<>>)

\* mutation updateQuizReview: the fields ctx.db.patch writes at time at
ReviewPatchNoIncrement(quiz, score, totalQuestions, at) ==
  [lastReviewedAt |-> <<at>>,
   nextReviewAt |-> at + ReviewInterval(Band(score, totalQuestions),
                                        quiz.reviewCount),
   reviewCount |-> quiz.reviewCount]

ReviewPatchResetOnLow(quiz, score, totalQuestions, at) ==
  [lastReviewedAt |-> <<at>>,
   nextReviewAt |-> at + ReviewInterval(Band(score, totalQuestions),
                                        quiz.reviewCount),
   reviewCount |-> IF Band(score, totalQuestions) = "low"
                     THEN 1 ELSE quiz.reviewCount + 1]

ReviewPatchKeepsLastReviewed(quiz, score, totalQuestions, at) ==
  [lastReviewedAt |-> quiz.lastReviewedAt,
   nextReviewAt |-> at + ReviewInterval(Band(score, totalQuestions),
                                        quiz.reviewCount),
   reviewCount |-> quiz.reviewCount + 1]

ReviewPatchFromCreation(quiz, score, totalQuestions, at) ==
  [lastReviewedAt |-> <<at>>,
   nextReviewAt |-> quiz.createdAt + ReviewInterval(Band(score, totalQuestions),
                                                    quiz.reviewCount),
   reviewCount |-> quiz.reviewCount + 1]

ReviewPatch(quiz, score, totalQuestions, at) ==
  [lastReviewedAt |-> <<at>>,
   nextReviewAt |-> at + ReviewInterval(Band(score, totalQuestions),
                                        quiz.reviewCount),
   reviewCount |-> quiz.reviewCount + 1]

\* mutation updateQuizReview
UpdateQuizReview(quizId, score, totalQuestions) ==
  IF ~Exists(quizId)
  THEN /\ response' = NotFound(quizId, score, totalQuestions)
       /\ UNCHANGED <<now, quizzes, nextQuizId, questions, quizAttempts,
                      nextAttemptId, advances, intervals>>
  ELSE LET quiz == quizzes[quizId]
           patch == ReviewPatch(quiz, score, totalQuestions, now)
       IN /\ quizzes' = [quizzes EXCEPT ![quizId] =
               [@ EXCEPT !.lastReviewedAt = patch.lastReviewedAt,
                         !.nextReviewAt = patch.nextReviewAt,
                         !.reviewCount = patch.reviewCount]]
          /\ advances' = [advances EXCEPT ![quizId] = Append(@, quiz.reviewCount)]
          /\ intervals' = [intervals EXCEPT ![quizId] =
               LastTwo(Append(@, patch.nextReviewAt - now))]
          /\ response' = Response("updateQuizReview", quizId, score,
                                  totalQuestions, "", <<patch.nextReviewAt>>)
          /\ UNCHANGED <<now, nextQuizId, questions, quizAttempts,
                         nextAttemptId>>

\* mutation deleteQuiz; ctx.db.delete of an id without document throws, and
\* the transaction then keeps none of the deletes before it
DeleteQuizNoCascade(quizId) ==
  IF ~Exists(quizId)
  THEN /\ response' = Response("deleteQuiz", quizId, 0, 0,
                               "Delete on nonexistent document", <<>>)
       /\ UNCHANGED <<now, quizzes, nextQuizId, questions, quizAttempts,
                      nextAttemptId, advances, intervals>>
  ELSE LET OfOther(row) == row.quizId # quizId
       IN /\ questions' = SelectSeq(questions, OfOther)
          /\ quizzes' = [id \in DOMAIN quizzes \ {quizId} |-> quizzes[id]]
          /\ advances' = [id \in DOMAIN advances \ {quizId} |-> advances[id]]
          /\ intervals' = [id \in DOMAIN intervals \ {quizId} |-> intervals[id]]
          /\ response' = Response("deleteQuiz", quizId, 0, 0, "", <<>>)
          /\ UNCHANGED <<now, nextQuizId, quizAttempts, nextAttemptId>>

DeleteQuiz(quizId) ==
  IF ~Exists(quizId)
  THEN /\ response' = Response("deleteQuiz", quizId, 0, 0,
                               "Delete on nonexistent document", <<>>)
       /\ UNCHANGED <<now, quizzes, nextQuizId, questions, quizAttempts,
                      nextAttemptId, advances, intervals>>
  ELSE LET OfOther(row) == row.quizId # quizId
       IN /\ questions' = SelectSeq(questions, OfOther)
          /\ quizAttempts' = SelectSeq(quizAttempts, OfOther)
          /\ quizzes' = [id \in DOMAIN quizzes \ {quizId} |-> quizzes[id]]
          /\ advances' = [id \in DOMAIN advances \ {quizId} |-> advances[id]]
          /\ intervals' = [id \in DOMAIN intervals \ {quizId} |-> intervals[id]]
          /\ response' = Response("deleteQuiz", quizId, 0, 0, "", <<>>)
          /\ UNCHANGED <<now, nextQuizId, nextAttemptId>>

\* query getQuizzesDueForReview: the filter of line 105
IsDueStrict(quiz, at) == quiz.nextReviewAt < at

IsDue(quiz, at) == quiz.nextReviewAt <= at

\* .withIndex("by_user", q => q.eq("userId", userId)).collect(): the documents
\* of the user in index order (userId, then _creationTime: the order in which
\* the ids were handed out), each given by its _id
CollectByUser(userId) ==
  LET OfUser(id) == Exists(id) /\ quizzes[id].userId = userId
  IN SelectSeq([id \in 1..(nextQuizId - 1) |-> id], OfUser)

\* query getQuizzesDueForReview: reads the tables and Date.now(), writes
\* nothing; the response carries the userId argument and the _ids returned
GetQuizzesDueForReview(userId) ==
  /\ LET allQuizzes == CollectByUser(userId)
         Due(id) == IsDue(quizzes[id], now)
     IN response' = [userId |-> userId] @@
          Response("getQuizzesDueForReview", 0, 0, 0, "",
                   <<SelectSeq(allQuizzes, Due)>>)
  /\ UNCHANGED <<now, quizzes, nextQuizId, questions, quizAttempts,
                 nextAttemptId, advances, intervals>>

\* query getUserStats: totalQuizzes and totalAttempts of the object returned
\* (averageScore, bestScore and totalTimeStudied are computed from the
\* attempts alone); the response carries the userId argument
GetUserStats(userId) ==
  /\ LET OfUser(row) == row.userId = userId
         attempts == SelectSeq(quizAttempts, OfUser)
         allQuizzes == CollectByUser(userId)
     IN response' = [userId |-> userId] @@
          Response("getUserStats", 0, 0, 0, "",
                   << IF Len(attempts) = 0
                        THEN [totalQuizzes |-> 0, totalAttempts |-> 0]
                        ELSE [totalQuizzes |-> Len(allQuizzes),
                              totalAttempts |-> Len(attempts)] >>)
  /\ UNCHANGED <<now, quizzes, nextQuizId, questions, quizAttempts,
                 nextAttemptId, advances, intervals>>

\* ------------------------------------------------------------ the quiz page
\* the steps of the quiz page write response too: "none" when no handler of
\* the store ran
NoResponse == Response("none", 0, 0, 0, "", <<>>)
StoreUntouched ==
  UNCHANGED <<now, quizzes, nextQuizId, questions, quizAttempts,
              nextAttemptId, advances, intervals>>

\* page.tsx 92-99: the questions of QuizScreen for a quiz of the backend
LocalQuestions(texts) ==
  [i \in 1..Len(texts) |->
     [id |-> i, type |-> BackendQuestions[texts[i]].type,
      question |-> texts[i],
      correctAnswer |-> BackendQuestions[texts[i]].correct_answer]]

\* questions.sort((a, b) => a.orderIndex - b.orderIndex): the comparator
CompareDescending(a, b) == b.orderIndex - a.orderIndex

Compare(a, b) == a.orderIndex - b.orderIndex

\* Array.prototype.sort with that comparator (stable): row is put behind the
\* last row of the sorted rows that it is not to come before
InsertSorted(rows, row) ==
  LET before == {i \in 1..Len(rows) : Compare(rows[i], row) <= 0}
      k == IF before = {} THEN 0
           ELSE CHOOSE i \in before : \A j \in before : j <= i
  IN SubSeq(rows, 1, k) \o <<row>> \o SubSeq(rows, k + 1, Len(rows))
RECURSIVE Sort(_)
Sort(rows) ==
  IF rows = <<>> THEN <<>>
  ELSE InsertSorted(Sort(SubSeq(rows, 1, Len(rows) - 1)), rows[Len(rows)])

\* query getQuizWithQuestions: the questions of the quiz, collected through
\* the index by_quiz (in creation order) and sorted by orderIndex
GetQuizWithQuestions(quizId) ==
  LET OfQuiz(row) == row.quizId = quizId
  IN Sort(SelectSeq(questions, OfQuiz))

\* query getQuizWithQuestions, a run: null for an id without document, else
\* the quiz with its questions; writes nothing
RunGetQuizWithQuestions(quizId) ==
  /\ response' =
       Response("getQuizWithQuestions", quizId, 0, 0, "",
                << IF ~Exists(quizId)
                     THEN [null |-> TRUE, quiz |-> <<>>, questions |-> <<>>]
                     ELSE [null |-> FALSE, quiz |-> <<quizzes[quizId]>>,
                           questions |-> GetQuizWithQuestions(quizId)] >>)
  /\ StoreUntouched

\* page.tsx 171-178: the questions of QuizScreen for a stored quiz; the
\* correctAnswer stored is String(correct_answer) (generateQuizData,
\* convex-client.ts 92)
ExistingQuestions(quizId) ==
  LET rows == GetQuizWithQuestions(quizId)
  IN [i \in 1..Len(rows) |->
        [id |-> i, type |-> BackendQuestions[rows[i].questionText].type,
         question |-> rows[i].questionText,
         correctAnswer |->
           String(BackendQuestions[rows[i].questionText].correct_answer)]]

\* setLocalQuizState, setQuizState, setQuizGenerated(true): QuizScreen mounts
StartQuiz(quizId, qs) ==
  /\ localQuizState' = [NoQuiz EXCEPT !.questions = qs]
  /\ quizState' = [quizId |-> quizId]
  /\ pc' = "quiz"
  /\ selectedAnswer' = Null
  /\ shortAnswer' = <<>>
  /\ showResult' = FALSE
  /\ UNCHANGED <<convexUserId, args, sessionNo, calls>>

\* generateQuiz, createQuiz returning the _id
GenerateQuiz(texts) ==
  /\ pc = "start"
  /\ convexUserId # <<>>
  /\ CreateQuiz(convexUserId[1], texts)
  /\ StartQuiz(<<"id", nextQuizId>>, LocalQuestions(texts))

\* generateQuiz, createQuiz throwing: the quiz gets the id temp_<Date.now()>
GenerateQuizUnsaved(texts) ==
  /\ pc = "start"
  /\ convexUserId # <<>>
  /\ response' = Response("createQuiz", 0, 0, 0, "Server Error", <<>>)
  /\ StoreUntouched
  /\ StartQuiz(<<"temp", now>>, LocalQuestions(texts))

\* the effect that loads the quiz of the ?id= parameter
LoadExistingQuiz(quizId) ==
  /\ pc = "start"
  /\ Exists(quizId)
  /\ response' = Response("getQuizWithQuestions", quizId, 0, 0, "", <<>>)
  /\ StoreUntouched
  /\ StartQuiz(<<"id", quizId>>, ExistingQuestions(quizId))

CurrentQuestion ==
  localQuizState.questions[localQuizState.currentQuestionIndex + 1]

\* QuizScreen: an option button is clicked
SetSelectedAnswer(index) ==
  /\ pc = "quiz"
  /\ ~localQuizState.isComplete
  /\ ~showResult
  /\ CurrentQuestion.type = "multiple-choice"
  /\ selectedAnswer' = <<"number", index>>
  /\ response' = NoResponse
  /\ StoreUntouched
  /\ UNCHANGED <<convexUserId, quizState, localQuizState, shortAnswer,
                 showResult, pc, args, sessionNo, calls>>

\* QuizScreen: the input of a short-answer question changes
SetShortAnswer(text) ==
  /\ pc = "quiz"
  /\ ~localQuizState.isComplete
  /\ ~showResult
  /\ CurrentQuestion.type = "short-answer"
  /\ shortAnswer' = text
  /\ response' = NoResponse
  /\ StoreUntouched
  /\ UNCHANGED <<convexUserId, quizState, localQuizState, selectedAnswer,
                 showResult, pc, args, sessionNo, calls>>

\* handleAnswerSubmit: isCorrect
IsCorrect ==
  IF CurrentQuestion.type = "multiple-choice"
    THEN StrictEquals(selectedAnswer, Number(CurrentQuestion.correctAnswer))
    ELSE /\ CurrentQuestion.correctAnswer[1] = "string"
         /\ Includes(ToLowerCase(shortAnswer),
                     ToLowerCase(CurrentQuestion.correctAnswer[2]))

\* isLastQuestionCorrect
IsLastQuestionCorrect ==
  LET userAnswer == IF CurrentQuestion.type = "multiple-choice"
                      THEN selectedAnswer
                      ELSE <<"string", ToLowerCase(shortAnswer)>>
  IN IF CurrentQuestion.type = "multiple-choice"
       THEN StrictEquals(userAnswer, CurrentQuestion.correctAnswer)
       ELSE /\ CurrentQuestion.correctAnswer[1] = "string"
            /\ Includes(ToLowerCase(shortAnswer),
                        ToLowerCase(CurrentQuestion.correctAnswer[2]))

\* handleAnswerSubmit
HandleAnswerSubmitAgain ==
  /\ pc = "quiz"
  /\ ~localQuizState.isComplete
  /\ IF CurrentQuestion.type = "multiple-choice"
       THEN selectedAnswer # Null ELSE shortAnswer # <<>>
  /\ showResult' = TRUE
  /\ localQuizState' =
       [localQuizState EXCEPT !.score =
          IF IsCorrect THEN [@ EXCEPT !.correct = @ + 1]
                       ELSE [@ EXCEPT !.incorrect = @ + 1]]
  /\ response' = NoResponse
  /\ StoreUntouched
  /\ UNCHANGED <<convexUserId, quizState, selectedAnswer, shortAnswer, pc,
                 args, sessionNo, calls>>

\* handleAnswerSubmit, the handler of the button shown while !showResult and
\* enabled once an answer is given
HandleAnswerSubmit ==
  /\ pc = "quiz"
  /\ ~localQuizState.isComplete
  /\ ~showResult
  /\ IF CurrentQuestion.type = "multiple-choice"
       THEN selectedAnswer # Null ELSE shortAnswer # <<>>
  /\ showResult' = TRUE
  /\ localQuizState' =
       [localQuizState EXCEPT !.score =
          IF IsCorrect THEN [@ EXCEPT !.correct = @ + 1]
                       ELSE [@ EXCEPT !.incorrect = @ + 1]]
  /\ response' = NoResponse
  /\ StoreUntouched
  /\ UNCHANGED <<convexUserId, quizState, selectedAnswer, shortAnswer, pc,
                 args, sessionNo, calls>>

\* handleQuizComplete up to its first await: "returned" by one of the two
\* early returns, "record" with recordQuizAttempt awaited
HandleQuizCompleteEntryNoTempCheck ==
  IF convexUserId = <<>> \/ quizState.quizId = Null THEN "returned"
  ELSE "record"

HandleQuizCompleteEntry ==
  IF convexUserId = <<>> \/ quizState.quizId = Null THEN "returned"
  ELSE IF quizState.quizId[1] = "temp" THEN "returned"
  ELSE "record"

\* handleNextQuestion, the handler of the button shown while showResult; on
\* the last question it calls onQuizComplete, which is handleQuizComplete
HandleNextQuestion ==
  /\ pc = "quiz"
  /\ ~localQuizState.isComplete
  /\ showResult
  /\ IF localQuizState.currentQuestionIndex
          < Len(localQuizState.questions) - 1
       THEN /\ localQuizState' =
                 [localQuizState EXCEPT !.currentQuestionIndex = @ + 1]
            /\ selectedAnswer' = Null
            /\ shortAnswer' = <<>>
            /\ showResult' = FALSE
            /\ UNCHANGED <<pc, args>>
       ELSE LET totalQuestions == Len(localQuizState.questions)
                correctAnswers ==
                  localQuizState.score.correct
                    + (IF showResult /\ IsLastQuestionCorrect THEN 1 ELSE 0)
            IN /\ localQuizState' = [localQuizState EXCEPT !.isComplete = TRUE]
               /\ args' = <<correctAnswers, totalQuestions>>
               /\ pc' = HandleQuizCompleteEntry
               /\ UNCHANGED <<selectedAnswer, shortAnswer, showResult>>
  /\ response' = NoResponse
  /\ StoreUntouched
  /\ UNCHANGED <<convexUserId, quizState, sessionNo, calls>>

\* handleQuizComplete: where it goes on when an awaited mutation returned
\* (ok) or threw (the catch block)
AfterRecordIgnoresFailure(ok) == "update"

AfterRecord(ok) == IF ok THEN "update" ELSE "caught"

AfterUpdateRetries(ok) == IF ok THEN "done" ELSE "update"

AfterUpdate(ok) == IF ok THEN "done" ELSE "caught"

\* history: a mutation handleQuizComplete awaited, with its arguments, the
\* time and whether it returned (value) or threw
Call(op, ok, value) ==
  [session |-> sessionNo, op |-> op, quizId |-> quizState.quizId[2],
   score |-> args[1], totalQuestions |-> args[2], at |-> now, ok |-> ok,
   value |-> value]

\* handleQuizComplete: await recordQuizAttempt(...), the mutation runs
AwaitRecordQuizAttempt ==
  /\ pc = "record"
  /\ RecordQuizAttempt(quizState.quizId[2], convexUserId[1], args[1], args[2])
  /\ pc' = AfterRecord(TRUE)
  /\ calls' = Append(calls, Call("recordQuizAttempt", TRUE, <<nextAttemptId>>))
  /\ UNCHANGED <<convexUserId, quizState, localQuizState, selectedAnswer,
                 shortAnswer, showResult, args, sessionNo>>

\* handleQuizComplete: await recordQuizAttempt(...) throws, nothing is stored
AwaitRecordQuizAttemptThrows ==
  /\ pc = "record"
  /\ response' = [userId |-> convexUserId[1]] @@
       Response("recordQuizAttempt", quizState.quizId[2], args[1], args[2],
                "Server Error", <<>>)
  /\ StoreUntouched
  /\ pc' = AfterRecord(FALSE)
  /\ calls' = Append(calls, Call("recordQuizAttempt", FALSE, <<>>))
  /\ UNCHANGED <<convexUserId, quizState, localQuizState, selectedAnswer,
                 shortAnswer, showResult, args, sessionNo>>

\* handleQuizComplete: await updateQuizReview(...), the mutation runs; it
\* throws "Quiz not found" when the quiz was deleted meanwhile
AwaitUpdateQuizReview ==
  /\ pc = "update"
  /\ UpdateQuizReview(quizState.quizId[2], args[1], args[2])
  /\ pc' = AfterUpdate(Exists(quizState.quizId[2]))
  /\ calls' = Append(calls,
       Call("updateQuizReview", Exists(quizState.quizId[2]), <<>>))
  /\ UNCHANGED <<convexUserId, quizState, localQuizState, selectedAnswer,
                 shortAnswer, showResult, args, sessionNo>>

\* handleQuizComplete: await updateQuizReview(...) throws without a run of
\* the mutation
AwaitUpdateQuizReviewThrows ==
  /\ pc = "update"
  /\ response' = Response("updateQuizReview", quizState.quizId[2], args[1],
                          args[2], "Server Error", <<>>)
  /\ StoreUntouched
  /\ pc' = AfterUpdate(FALSE)
  /\ calls' = Append(calls, Call("updateQuizReview", FALSE, <<>>))
  /\ UNCHANGED <<convexUserId, quizState, localQuizState, selectedAnswer,
                 shortAnswer, showResult, args, sessionNo>>

\* the page is closed, or the browser or the device stops
ClosePage ==
  /\ pc \notin {"start", "closed"}
  /\ pc' = "closed"
  /\ response' = NoResponse
  /\ StoreUntouched
  /\ UNCHANGED <<convexUserId, quizState, localQuizState, selectedAnswer,
                 shortAnswer, showResult, args, sessionNo, calls>>

\* the page is opened again (window.location.reload() of "Take Again", or a
\* visit later on): every useState starts from its initial value
Reload(user) ==
  /\ sessionNo' = sessionNo + 1
  /\ convexUserId' = user
  /\ quizState' = [quizId |-> Null]
  /\ localQuizState' = NoQuiz
  /\ selectedAnswer' = Null
  /\ shortAnswer' = <<>>
  /\ showResult' = FALSE
  /\ pc' = "start"
  /\ args' = <<>>
  /\ response' = NoResponse
  /\ StoreUntouched
  /\ UNCHANGED calls

\* ------------------------------------------- the quiz page: generateQuiz
\* the page of an upload: no ?id= in the URL, uploadState.content set;
\* quizGenerated is set together with the quiz (StartQuiz)
QuizGenerated == pc # "start"

\* the effect of page.tsx 207-231: shouldGenerate
ShouldGenerate ==
  /\ UploadContent # ""
  /\ ~QuizGenerated
  /\ ~isGeneratingQuiz
  /\ convexUserId # <<>>
  /\ ~hasGeneratedRef

\* generateQuiz: the guards of lines 69-75
GenerateQuizEntry ==
  /\ ~(UploadContent = "" \/ convexUserId = <<>> \/ hasGeneratedRef)
  /\ currentContentRef # UploadContent

\* a run of generateQuiz goes on
GenerationAt(g, at) == g \in 1..Len(generations) /\ generations[g].at = at

\* the effect runs while the page is mounted and calls generateQuiz, which
\* runs up to its await of apiClient.generateQuiz
RunGenerateEffect ==
  /\ pc # "closed"
  /\ ShouldGenerate
  /\ GenerateQuizEntry
  /\ hasGeneratedRef' = TRUE
  /\ currentContentRef' = UploadContent
  /\ isGeneratingQuiz' = TRUE
  /\ appError' = <<>>
  /\ generations' = Append(generations,
       [at |-> "api", texts |-> <<>>, createQuiz |-> FALSE])
  /\ response' = NoResponse
  /\ StoreUntouched
  /\ UNCHANGED page

\* generateQuiz: the backend answered with a quiz; createQuiz is called
ApiReturns(g, texts) ==
  /\ GenerationAt(g, "api")
  /\ generations' = [generations EXCEPT
       ![g] = [at |-> "create", texts |-> texts, createQuiz |-> TRUE]]
  /\ response' = NoResponse
  /\ StoreUntouched
  /\ UNCHANGED <<page, hasGeneratedRef, currentContentRef, isGeneratingQuiz,
                 appError>>

\* generateQuiz: apiClient.generateQuiz returned {success: false} (it catches
\* every failure of the request, part_009:181-187): setError, then finally
ApiFails(g) ==
  /\ GenerationAt(g, "api")
  /\ appError' = <<"Failed to generate quiz">>
  /\ isGeneratingQuiz' = FALSE
  /\ generations' = [generations EXCEPT ![g].at = "failed"]
  /\ response' = NoResponse
  /\ StoreUntouched
  /\ UNCHANGED <<page, hasGeneratedRef, currentContentRef>>

\* generateQuiz: a throw before createQuiz is called (the conversion of the
\* response): the outer catch, which resets the refs unless the message
\* holds "ArgumentValidationError", then finally
GenerationThrows(g, reset) ==
  /\ GenerationAt(g, "api")
  /\ appError' = <<"Failed to generate quiz">>
  /\ hasGeneratedRef' = IF reset THEN FALSE ELSE hasGeneratedRef
  /\ currentContentRef' = IF reset THEN "" ELSE currentContentRef
  /\ isGeneratingQuiz' = FALSE
  /\ generations' = [generations EXCEPT ![g].at = "thrown"]
  /\ response' = NoResponse
  /\ StoreUntouched
  /\ UNCHANGED page

\* generateQuiz: createQuiz ran and returned the _id; the quiz is shown
CreateQuizReturns(g) ==
  /\ GenerationAt(g, "create")
  /\ convexUserId # <<>>
  /\ CreateQuiz(convexUserId[1], generations[g].texts)
  /\ StartQuiz(<<"id", nextQuizId>>, LocalQuestions(generations[g].texts))
  /\ isGeneratingQuiz' = FALSE
  /\ generations' = [generations EXCEPT ![g].at = "done"]
  /\ UNCHANGED <<hasGeneratedRef, currentContentRef, appError>>

\* generateQuiz: createQuiz threw; the inner catch of lines 113-117
CreateQuizThrowsRetries(g) ==
  /\ GenerationAt(g, "create")
  /\ response' = Response("createQuiz", 0, 0, 0, "Server Error", <<>>)
  /\ StoreUntouched
  /\ appError' = <<"Server Error">>
  /\ hasGeneratedRef' = FALSE
  /\ currentContentRef' = ""
  /\ isGeneratingQuiz' = FALSE
  /\ generations' = [generations EXCEPT ![g].at = "thrown"]
  /\ UNCHANGED page

CreateQuizThrows(g) ==
  /\ GenerationAt(g, "create")
  /\ response' = Response("createQuiz", 0, 0, 0, "Server Error", <<>>)
  /\ StoreUntouched
  /\ StartQuiz(<<"temp", now>>, LocalQuestions(generations[g].texts))
  /\ isGeneratingQuiz' = FALSE
  /\ generations' = [generations EXCEPT ![g].at = "unsaved"]
  /\ UNCHANGED <<hasGeneratedRef, currentContentRef, appError>>

\* ---------------------------------------------------------- specifications
\* the bounds of a specification: the clock, the ids handed out, and the
\* reviewCount of the quiz a call is about
ClockBelow(d) == now + d <= MaxNowDays * DayTicks
ReviewsBelow(quizId, max) == Exists(quizId) => quizzes[quizId].reviewCount < max

\* Spec: every mutation, called by any client with any argument, and the
\* query getQuizzesDueForReview; an attempt is recorded for an id the store
\* has handed out (of an existing quiz or of a deleted one)
Next ==
  \/ /\ \E d \in ClockSteps : ClockBelow(d) /\ AdvanceClock(d)
     /\ UNCHANGED client
  \/ /\ \E u \in Users, qs \in QuestionLists :
          nextQuizId <= MaxQuizzes /\ CreateQuiz(u, qs)
     /\ UNCHANGED client
  \/ /\ \E q \in QuizIds, u \in Users, p \in StorePairs :
          /\ nextAttemptId <= MaxAttempts
          /\ q < nextQuizId
          /\ RecordQuizAttempt(q, u, p[1], p[2])
     /\ UNCHANGED client
  \/ /\ \E q \in QuizIds, p \in StorePairs :
          ReviewsBelow(q, MaxStoreReviews) /\ UpdateQuizReview(q, p[1], p[2])
     /\ UNCHANGED client
  \/ /\ \E q \in QuizIds : DeleteQuiz(q)
     /\ UNCHANGED client
  \/ /\ \E u \in Users : GetQuizzesDueForReview(u)
     /\ UNCHANGED client

Spec == Init /\ [][Next]_vars

\* SpecReview: the life of one item (the first the store hands out) over many
\* reviews: it is created, reviewed again and again with any score by any
\* client, and deleted; calls about an id without document are made as well
ReviewNext ==
  \/ /\ \E d \in ClockSteps : ClockBelow(d) /\ AdvanceClock(d)
     /\ UNCHANGED client
  \/ /\ \E u \in Users, qs \in QuestionLists : nextQuizId = 1 /\ CreateQuiz(u, qs)
     /\ UNCHANGED client
  \/ /\ \E q \in QuizIds, p \in ScorePairs :
          ReviewsBelow(q, MaxReviews) /\ UpdateQuizReview(q, p[1], p[2])
     /\ UNCHANGED client
  \/ /\ \E q \in QuizIds : DeleteQuiz(q)
     /\ UNCHANGED client

SpecReview == Init /\ [][ReviewNext]_vars

\* SpecDue: one item and the query getQuizzesDueForReview around the instants
\* at which the item falls due: the clock moves by a day or by a tick less
DueNext ==
  \/ /\ \E d \in DueClockSteps :
          now + d <= MaxDueDays * DayTicks /\ AdvanceClock(d)
     /\ UNCHANGED client
  \/ /\ \E u \in Users, qs \in QuestionLists : nextQuizId = 1 /\ CreateQuiz(u, qs)
     /\ UNCHANGED client
  \/ /\ \E q \in QuizIds, p \in StorePairs :
          ReviewsBelow(q, MaxStoreReviews) /\ UpdateQuizReview(q, p[1], p[2])
     /\ UNCHANGED client
  \/ /\ \E q \in QuizIds : DeleteQuiz(q)
     /\ UNCHANGED client
  \/ /\ \E u \in Users : GetQuizzesDueForReview(u)
     /\ UNCHANGED client

SpecDue == Init /\ [][DueNext]_vars

\* SpecSession: the quiz page, opened up to MaxSessions times by a learner
\* who generates one quiz and takes it, while the quiz may be deleted from
\* another page; no step of the page depends on the time that passes, and
\* the clock stays where it is
SessionNext ==
  \/ /\ \E texts \in BackendQuizzes : nextQuizId = 1 /\ GenerateQuiz(texts)
     /\ UNCHANGED <<generation, requested>>
  \/ /\ \E texts \in BackendQuizzes :
          nextQuizId = 1 /\ GenerateQuizUnsaved(texts)
     /\ UNCHANGED <<generation, requested>>
  \/ /\ \E q \in QuizIds : LoadExistingQuiz(q)
     /\ UNCHANGED <<generation, requested>>
  \/ /\ \E index \in AnswerIndexes : SetSelectedAnswer(index)
     /\ UNCHANGED <<generation, requested>>
  \/ /\ \E text \in ShortAnswers : SetShortAnswer(text)
     /\ UNCHANGED <<generation, requested>>
  \/ HandleAnswerSubmit /\ UNCHANGED <<generation, requested>>
  \/ HandleNextQuestion /\ UNCHANGED <<generation, requested>>
  \/ AwaitRecordQuizAttempt /\ UNCHANGED <<generation, requested>>
  \/ AwaitRecordQuizAttemptThrows /\ UNCHANGED <<generation, requested>>
  \/ AwaitUpdateQuizReview /\ UNCHANGED <<generation, requested>>
  \/ AwaitUpdateQuizReviewThrows /\ UNCHANGED <<generation, requested>>
  \/ ClosePage /\ UNCHANGED <<generation, requested>>
  \/ /\ \E user \in {<<>>, <<"u1">>} : sessionNo < MaxSessions /\ Reload(user)
     /\ UNCHANGED <<generation, requested>>
  \/ /\ \E q \in QuizIds : DeleteQuiz(q)
     /\ UNCHANGED client

SpecSession == Init /\ [][SessionNext]_vars

\* SpecStats: the dashboard's query getUserStats while quizzes are created
\* and deleted and attempts recorded by two users
StatsNext ==
  \/ /\ \E u \in Users, qs \in QuestionLists :
          nextQuizId <= MaxQuizzes /\ CreateQuiz(u, qs)
     /\ UNCHANGED client
  \/ /\ \E q \in QuizIds, u \in Users, p \in StatsPairs :
          /\ nextAttemptId <= MaxStatsAttempts
          /\ q < nextQuizId
          /\ RecordQuizAttempt(q, u, p[1], p[2])
     /\ UNCHANGED client
  \/ /\ \E q \in QuizIds : DeleteQuiz(q)
     /\ UNCHANGED client
  \/ /\ \E u \in Users : GetUserStats(u)
     /\ UNCHANGED client

SpecStats == Init /\ [][StatsNext]_vars

\* SpecGenerate: one mount of the quiz page after an upload: the generating
\* effect runs whenever it may, the backend and createQuiz succeed or fail,
\* and the learner takes the quiz that was generated
GenerateNext ==
  \/ /\ Len(generations) < MaxGenerations /\ RunGenerateEffect
     /\ UNCHANGED requested
  \/ /\ \E g \in 1..MaxGenerations, texts \in BackendQuizzes :
          ApiReturns(g, texts)
     /\ UNCHANGED requested
  \/ /\ \E g \in 1..MaxGenerations : ApiFails(g)
     /\ UNCHANGED requested
  \/ /\ \E g \in 1..MaxGenerations, reset \in BOOLEAN :
          GenerationThrows(g, reset)
     /\ UNCHANGED requested
  \/ /\ \E g \in 1..MaxGenerations : CreateQuizReturns(g)
     /\ UNCHANGED requested
  \/ /\ \E g \in 1..MaxGenerations : CreateQuizThrows(g)
     /\ UNCHANGED requested
  \/ /\ \E index \in AnswerIndexes : SetSelectedAnswer(index)
     /\ UNCHANGED <<generation, requested>>
  \/ /\ \E text \in ShortAnswers : SetShortAnswer(text)
     /\ UNCHANGED <<generation, requested>>
  \/ HandleAnswerSubmit /\ UNCHANGED <<generation, requested>>
  \/ HandleNextQuestion /\ UNCHANGED <<generation, requested>>
  \/ AwaitRecordQuizAttempt /\ UNCHANGED <<generation, requested>>
  \/ AwaitRecordQuizAttemptThrows /\ UNCHANGED <<generation, requested>>
  \/ AwaitUpdateQuizReview /\ UNCHANGED <<generation, requested>>
  \/ AwaitUpdateQuizReviewThrows /\ UNCHANGED <<generation, requested>>
  \/ ClosePage /\ UNCHANGED <<generation, requested>>

SpecGenerate == Init /\ [][GenerateNext]_vars

\* SpecQuestions: quizzes are created with their questions by two users and
\* deleted, and read back with getQuizWithQuestions, by any id
QuestionsNext ==
  \/ /\ \E u \in Users, qs \in OrderedLists :
          /\ nextQuizId <= MaxQuizzes
          /\ CreateQuiz(u, qs)
          /\ requested' = [id \in DOMAIN requested \cup {nextQuizId} |->
                             IF id = nextQuizId THEN qs ELSE requested[id]]
     /\ UNCHANGED <<page, generation>>
  \/ /\ \E q \in QuizIds : DeleteQuiz(q)
     /\ UNCHANGED client
  \/ /\ \E q \in QuizIds : RunGetQuizWithQuestions(q)
     /\ UNCHANGED client

SpecQuestions == Init /\ [][QuestionsNext]_vars

\* ------------------------------------------------------------------ claims
\* The state right after a run of updateQuizReview that returned: every
\* action rewrites response, so now is still the Date.now() of that run, the
\* quiz is as the run left it, and the last entry of advances is the
\* reviewCount the run read.
Reviewed == response.op = "updateQuizReview" /\ response.error = ""
ReviewedQuiz == quizzes[response.quizId]
ReadCount == advances[response.quizId][Len(advances[response.quizId])]
Applied == ReviewedQuiz.nextReviewAt - now
Score == response.score
Total == response.totalQuestions

\* C1: a run of updateQuizReview on an item of reviewCount r with
\* totalQuestions > 0 and score/totalQuestions >= 0.90 leaves
\* nextReviewAt - now = 2^(r+1) days.
HighBandInterval ==
  (Reviewed /\ Total > 0 /\ 10 * Score >= 9 * Total)
    => /\ Applied = Pow(2, ReadCount + 1) * DayTicks
       /\ DayTicks * TickMs = 86400000

\* C1 witness: a perfect score on an item of reviewCount 5 scheduled it 64
\* days ahead.
HighBandWitness ==
  /\ Reviewed /\ Score = 10 /\ Total = 10
  /\ ReadCount = 5
  /\ Applied = 64 * DayTicks

\* C2: a run of updateQuizReview with totalQuestions > 0 and
\* score/totalQuestions < 0.70 leaves nextReviewAt - now = 1 day, whatever r.
LowBandInterval ==
  (Reviewed /\ Total > 0 /\ 10 * Score < 7 * Total) => Applied = DayTicks

\* C2 witness: a zero score on an item of reviewCount 3 scheduled it 1 day
\* ahead.
LowBandWitness ==
  /\ Reviewed /\ Score = 0 /\ Total = 10
  /\ ReadCount = 3
  /\ Applied = DayTicks

\* C3: a run of updateQuizReview with 0.70 <= score/totalQuestions < 0.90
\* leaves nextReviewAt - now = 1.5^(r+1) days = 3^(r+1) / 2^(r+1) days; for
\* r = 2 that is 291,600,000 ms and the new reviewCount is 3.
MidBandInterval ==
  (Reviewed /\ Total > 0 /\ 10 * Score >= 7 * Total /\ 10 * Score < 9 * Total)
    => /\ Pow(2, ReadCount + 1) * Applied = Pow(3, ReadCount + 1) * DayTicks
       /\ ReadCount = 2 => /\ Applied * TickMs = 291600000
                           /\ ReviewedQuiz.reviewCount = 3

\* C3 witness: 8 of 10 on an item of reviewCount 2.
MidBandWitness ==
  /\ Reviewed /\ Score = 8 /\ Total = 10
  /\ ReadCount = 2
  /\ 8 * Applied = 27 * DayTicks

\* C4: for 0 <= score <= totalQuestions, totalQuestions > 0 the interval is
\* that of exactly one band, the band whose range holds the ratio, each range
\* including its lower bound: exactly 0.90 is high, exactly 0.70 is mid.
BandBoundaries ==
  (Reviewed /\ Total > 0 /\ 0 <= Score /\ Score <= Total)
    => LET high == Applied = Pow(2, ReadCount + 1) * DayTicks
           mid == Pow(2, ReadCount + 1) * Applied
                    = Pow(3, ReadCount + 1) * DayTicks
           low == Applied = DayTicks
       IN /\ 10 * Score = 9 * Total => high
          /\ 10 * Score = 7 * Total => mid
          /\ high <=> 10 * Score >= 9 * Total
          /\ mid <=> (10 * Score >= 7 * Total /\ 10 * Score < 9 * Total)
          /\ low <=> 10 * Score < 7 * Total

\* C4 witness: a ratio of exactly 0.70 on an item of reviewCount 1 got the
\* mid-band interval, 2.25 days.
BandBoundariesWitness ==
  /\ Reviewed /\ Score = 7 /\ Total = 10
  /\ ReadCount = 1
  /\ 4 * Applied = 9 * DayTicks

\* C5: an item is created with reviewCount 0; a run of updateQuizReview that
\* returns adds exactly 1 to the reviewCount of its item, whatever the band;
\* no other step changes the reviewCount of an existing item; so it never
\* decreases and is the number of runs that returned since the creation.
ReviewCountCounts ==
  [][\A q \in QuizIds :
       /\ (q \in DOMAIN quizzes' /\ q \notin DOMAIN quizzes)
            => quizzes'[q].reviewCount = 0
       /\ (q \in DOMAIN quizzes' /\ q \in DOMAIN quizzes)
            => quizzes'[q].reviewCount =
                 IF /\ response'.op = "updateQuizReview"
                    /\ response'.error = ""
                    /\ response'.quizId = q
                 THEN quizzes[q].reviewCount + 1
                 ELSE quizzes[q].reviewCount
       /\ q \in DOMAIN quizzes'
            => quizzes'[q].reviewCount = Len(advances'[q])]_vars

\* C5 witness: an item reviewed four times, the last time in the low band.
ReviewCountWitness ==
  /\ Reviewed /\ Score = 0 /\ Total = 10
  /\ ReviewedQuiz.reviewCount = 4
  /\ Len(advances[response.quizId]) = 4

\* C6: when the run before the last on an item of reviewCount r was in the low
\* band (the only band with an interval of 1 day) and the last one is in the
\* high band, the last one read r + 1 and scheduled 2^(r+2) days, not 2 days.
LowThenHighResumes ==
  (/\ Reviewed /\ Total > 0 /\ 10 * Score >= 9 * Total
   /\ Len(intervals[response.quizId]) = 2
   /\ intervals[response.quizId][1] = DayTicks)
    => LET reads == advances[response.quizId]
           r == reads[Len(reads) - 1]
       IN /\ ReadCount = r + 1
          /\ Applied = Pow(2, r + 2) * DayTicks
          /\ Applied # 2 * DayTicks

\* C6 witness: reviewCount 2, a low-band run (1 day), then a high-band run
\* that scheduled 16 days.
LowThenHighWitness ==
  /\ Reviewed /\ Score = 10 /\ Total = 10
  /\ intervals[response.quizId] = <<DayTicks, 16 * DayTicks>>
  /\ advances[response.quizId] = <<0, 1, 2, 3>>

NonPositiveTotalRejected ==
  [][(response'.op = "updateQuizReview" /\ response'.totalQuestions <= 0)
       => (response'.error # "" /\ quizzes' = quizzes)]_vars

\* C9 as claimed: updateQuizReview with a score outside 0..totalQuestions
\* throws and leaves the quizzes as they were.
ScoreOutOfRangeRejected ==
  [][(/\ response'.op = "updateQuizReview"
      /\ response'.totalQuestions > 0
      /\ (response'.score < 0 \/ response'.score > response'.totalQuestions))
       => (response'.error # "" /\ quizzes' = quizzes)]_vars

\* C10: updateQuizReview for an id without document (never handed out, or
\* deleted) throws "Quiz not found" and writes nothing: no table changes.
NotFoundWritesNothing ==
  [][(response'.op = "updateQuizReview" /\ response'.quizId \notin DOMAIN quizzes)
       => /\ response'.error = "Quiz not found"
          /\ response'.value = <<>>
          /\ quizzes' = quizzes
          /\ questions' = questions
          /\ quizAttempts' = quizAttempts
          /\ nextQuizId' = nextQuizId
          /\ nextAttemptId' = nextAttemptId]_vars

\* C10 witness: the call was about a deleted item, while another item and an
\* attempt were stored.
NotFoundWitness ==
  /\ response.op = "updateQuizReview"
  /\ response.error = "Quiz not found"
  /\ response.quizId < nextQuizId
  /\ response.quizId \notin DOMAIN quizzes
  /\ quizzes # <<>>
  /\ quizAttempts # <<>>

\* ---------------------------------------------------- claims: frame, queries
\* the step just taken, as seen in the state it leads to
ReviewReturned ==
  response'.op = "updateQuizReview" /\ response'.error = ""
DeleteReturned == response'.op = "deleteQuiz" /\ response'.error = ""
ScheduleOf(quiz) ==
  <<quiz.reviewCount, quiz.lastReviewedAt, quiz.nextReviewAt>>

\* C11: a run of updateQuizReview on q at time now that returns leaves q with
\* lastReviewedAt = now, nextReviewAt = now + the interval of one of the three
\* bands and reviewCount one more than before, returns the nextReviewAt it
\* stored, and changes nothing else: the other fields of q, the set of items,
\* every other item, every question and every attempt.
AdvanceFrame ==
  [][ReviewReturned =>
       LET q == response'.quizId
           r == quizzes[q].reviewCount
       IN /\ q \in DOMAIN quizzes
          /\ DOMAIN quizzes' = DOMAIN quizzes
          /\ quizzes'[q].lastReviewedAt = <<now>>
          /\ quizzes'[q].nextReviewAt - now \in
               { Pow(2, r + 1) * DayTicks,
                 (Pow(3, r + 1) * DayTicks) \div Pow(2, r + 1),
                 DayTicks }
          /\ quizzes'[q].reviewCount = r + 1
          /\ response'.value = <<quizzes'[q].nextReviewAt>>
          /\ quizzes'[q].userId = quizzes[q].userId
          /\ quizzes'[q].createdAt = quizzes[q].createdAt
          /\ \A o \in DOMAIN quizzes \ {q} : quizzes'[o] = quizzes[o]
          /\ questions' = questions
          /\ quizAttempts' = quizAttempts
          /\ nextQuizId' = nextQuizId
          /\ nextAttemptId' = nextAttemptId
          /\ now' = now]_vars

\* C11 witness: one day after its creation an item was reviewed for the first
\* time, while another item and an attempt were stored.
AdvanceFrameWitness ==
  /\ Reviewed
  /\ now = DayTicks
  /\ ReviewedQuiz.createdAt = 0
  /\ ReviewedQuiz.lastReviewedAt = <<DayTicks>>
  /\ ReviewedQuiz.reviewCount = 1
  /\ response.value = <<ReviewedQuiz.nextReviewAt>>
  /\ Cardinality(DOMAIN quizzes) = 2
  /\ Len(quizAttempts) = 1

\* C12: getQuizzesDueForReview(userId) at time now returns exactly the existing
\* items of userId with nextReviewAt <= now, each once: no item of another
\* user, none with nextReviewAt > now, and every due item of userId.
DueListExact ==
  response.op = "getQuizzesDueForReview"
    => LET due == response.value[1]
       IN /\ response.error = ""
          /\ \A q \in QuizIds :
               (\E i \in 1..Len(due) : due[i] = q)
                 <=> /\ q \in DOMAIN quizzes
                     /\ quizzes[q].userId = response.userId
                     /\ quizzes[q].nextReviewAt <= now
          /\ \A i, j \in 1..Len(due) : i # j => due[i] # due[j]

\* C12 witness: the list of u1 holds an item due at exactly this instant
\* (nextReviewAt = now), while an item of u2 is due as well and is left out.
DueListWitness ==
  /\ response.op = "getQuizzesDueForReview"
  /\ response.userId = "u1"
  /\ Len(response.value[1]) = 1
  /\ quizzes[response.value[1][1]].nextReviewAt = now
  /\ \E o \in DOMAIN quizzes :
       quizzes[o].userId = "u2" /\ quizzes[o].nextReviewAt <= now

AttemptsAppendOnly ==
  [][/\ \A i \in 1..Len(quizAttempts) :
          \/ /\ DeleteReturned
             /\ response'.quizId = quizAttempts[i].quizId
             /\ \A j \in 1..Len(quizAttempts') :
                  quizAttempts'[j].id # quizAttempts[i].id
          \/ /\ ~(DeleteReturned /\ response'.quizId = quizAttempts[i].quizId)
             /\ \E j \in 1..Len(quizAttempts') :
                  quizAttempts'[j] = quizAttempts[i]
     /\ DeleteReturned =>
          LET q == response'.quizId
              Kept(rows) ==
                {i \in 1..Len(rows) : rows[i].quizId # q}
          IN /\ q \in DOMAIN quizzes
             /\ DOMAIN quizzes' = DOMAIN quizzes \ {q}
             /\ \A o \in DOMAIN quizzes' : quizzes'[o] = quizzes[o]
             /\ \A j \in 1..Len(questions') : questions'[j].quizId # q
             /\ \A j \in 1..Len(quizAttempts') : quizAttempts'[j].quizId # q
             /\ Len(questions') = Cardinality(Kept(questions))
             /\ Len(quizAttempts') = Cardinality(Kept(quizAttempts))
             /\ \A i, k \in Kept(questions) :
                  i < k => \E j, l \in 1..Len(questions') :
                             /\ j < l
                             /\ questions'[j] = questions[i]
                             /\ questions'[l] = questions[k]
             /\ \A i \in Kept(questions) :
                  \E j \in 1..Len(questions') : questions'[j] = questions[i]
             /\ \A i \in Kept(quizAttempts) :
                  \E j \in 1..Len(quizAttempts') :
                    quizAttempts'[j] = quizAttempts[i]]_vars

\* C18 witness: deleteQuiz removed an item that had questions and an attempt,
\* and the other item kept its questions.
AttemptsCascadeWitness ==
  /\ response.op = "deleteQuiz" /\ response.error = ""
  /\ nextAttemptId = 2
  /\ quizAttempts = <<>>
  /\ Cardinality(DOMAIN quizzes) = 1
  /\ Len(questions) = 2
  /\ questions[1].quizId \in DOMAIN quizzes

\* C19: the userId and createdAt of an existing item never change, an _id is
\* never handed out twice, and reviewCount, lastReviewedAt and nextReviewAt of
\* an existing item q change only in a run of updateQuizReview on q that
\* returns: createQuiz, recordQuizAttempt, getQuizzesDueForReview, deleteQuiz
\* of another item and every call that throws leave them as they were.
ScheduleOnlyByAdvance ==
  [][/\ \A q \in DOMAIN quizzes \cap DOMAIN quizzes' :
          /\ quizzes'[q].userId = quizzes[q].userId
          /\ quizzes'[q].createdAt = quizzes[q].createdAt
          /\ ScheduleOf(quizzes'[q]) # ScheduleOf(quizzes[q])
               => (ReviewReturned /\ response'.quizId = q)
          /\ ~(ReviewReturned /\ response'.quizId = q)
               => quizzes'[q] = quizzes[q]
     /\ \A q \in DOMAIN quizzes' \ DOMAIN quizzes :
          /\ response'.op = "createQuiz"
          /\ q = nextQuizId
          /\ nextQuizId' > q]_vars

\* C19 witness: a reviewed item (reviewCount 1, reviewed at day 1) is
\* unchanged after the other item was deleted.
ScheduleOnlyWitness ==
  /\ response.op = "deleteQuiz" /\ response.error = ""
  /\ \E q \in DOMAIN quizzes :
       /\ q # response.quizId
       /\ quizzes[q].reviewCount = 1
       /\ quizzes[q].lastReviewedAt = <<DayTicks>>
       /\ quizzes[q].createdAt = 0

\* C13: an item created at time T and not reviewed since has reviewCount 0, no
\* lastReviewedAt and nextReviewAt = T + 1 day; getQuizzesDueForReview of its
\* owner at time t leaves it out when t < T + 1 day (so at t = T) and returns
\* it when t >= T + 1 day (so at t = T + 2 days).
FreshItemDue ==
  \A q \in DOMAIN quizzes :
    advances[q] = <<>> =>
      LET T == quizzes[q].createdAt
          listed == \E i \in 1..Len(response.value[1]) :
                      response.value[1][i] = q
      IN /\ quizzes[q].reviewCount = 0
         /\ quizzes[q].lastReviewedAt = <<>>
         /\ quizzes[q].nextReviewAt = T + DayTicks
         /\ T <= now
         /\ (/\ response.op = "getQuizzesDueForReview"
             /\ response.userId = quizzes[q].userId)
              => /\ now < T + DayTicks => ~listed
                 /\ now >= T + DayTicks => listed
                 /\ now = T => ~listed
                 /\ now = T + 2 * DayTicks => listed

\* C13 witness: the owner's list two days after the creation of an item that
\* was never reviewed holds the item.
FreshItemDueWitness ==
  /\ response.op = "getQuizzesDueForReview"
  /\ response.value[1] = <<1>>
  /\ 1 \in DOMAIN quizzes
  /\ advances[1] = <<>>
  /\ response.userId = quizzes[1].userId
  /\ now = quizzes[1].createdAt + 2 * DayTicks

\* ------------------------------------------------- claims: the quiz session
\* the positions of calls with a given op of session n, and those that returned
CallsOf(n, op) ==
  {i \in 1..Len(calls) : calls[i].session = n /\ calls[i].op = op}
Returned(n, op) == {i \in CallsOf(n, op) : calls[i].ok}
\* the runs of op on quizId that returned, of all sessions
ReturnedOn(quizId, op) ==
  {i \in 1..Len(calls) :
     calls[i].op = op /\ calls[i].quizId = quizId /\ calls[i].ok}
\* handleQuizComplete was called in this session
Finished == args # <<>>

\* C14: handleQuizComplete awaits recordQuizAttempt first; every
\* updateQuizReview it awaits comes right after the recordQuizAttempt of the
\* same session, which returned, and has the same quizId, score and
\* totalQuestions; a session whose recordQuizAttempt threw awaits no
\* updateQuizReview.
RecordBeforeAdvance ==
  /\ \A i \in 1..Len(calls) :
       calls[i].op = "updateQuizReview"
         => /\ i > 1
            /\ calls[i - 1].op = "recordQuizAttempt"
            /\ calls[i - 1].ok
            /\ calls[i - 1].session = calls[i].session
            /\ calls[i - 1].quizId = calls[i].quizId
            /\ calls[i - 1].score = calls[i].score
            /\ calls[i - 1].totalQuestions = calls[i].totalQuestions
  /\ \A n \in 1..sessionNo :
       (CallsOf(n, "recordQuizAttempt") # {}
          /\ Returned(n, "recordQuizAttempt") = {})
         => CallsOf(n, "updateQuizReview") = {}
  /\ pc = "update" => Returned(sessionNo, "recordQuizAttempt") # {}

\* C14 witness: a session recorded its attempt and then advanced the
\* schedule of the same quiz with the same score; the attempt is stored.
RecordBeforeAdvanceWitness ==
  /\ pc = "done"
  /\ Reviewed
  /\ Len(calls) = 2
  /\ calls[1].op = "recordQuizAttempt" /\ calls[2].op = "updateQuizReview"
  /\ Len(quizAttempts) = 1
  /\ quizAttempts[1].quizId = response.quizId
  /\ quizAttempts[1].score = response.score
  /\ quizAttempts[1].totalQuestions = response.totalQuestions
  /\ localQuizState.score.incorrect = 1

\* C15 as claimed: the score handed to handleQuizComplete is the number of
\* questions answered correctly (score.correct, which the result screen
\* shows), totalQuestions the number of questions, and every stored attempt
\* has 0 <= score <= totalQuestions.
ScoreIsCorrectCount ==
  /\ Finished =>
       /\ args[1] = localQuizState.score.correct
       /\ args[2] = Len(localQuizState.questions)
       /\ 0 <= args[1] /\ args[1] <= args[2]
  /\ \A i \in 1..Len(quizAttempts) :
       /\ 0 <= quizAttempts[i].score
       /\ quizAttempts[i].score <= quizAttempts[i].totalQuestions

\* a session that got its attempt recorded and is over without a run of
\* updateQuizReview that returned: the page was closed or opened anew, or
\* updateQuizReview threw
Stranded(n) ==
  /\ Returned(n, "recordQuizAttempt") # {}
  /\ Returned(n, "updateQuizReview") = {}
  /\ n < sessionNo \/ pc \in {"closed", "caught"}

\* C16: when a session is over after its recordQuizAttempt returned and
\* without an updateQuizReview that returned, then, as long as the quiz exists,
\* its attempt is stored while the schedule of the quiz is where the runs of
\* updateQuizReview of the other sessions left it: reviewCount is their
\* number, which stays below the number of attempts recorded, and
\* lastReviewedAt and nextReviewAt are those of the creation or of the last
\* such run; nothing advances the schedule for that attempt later on.
TwoCallsNotAtomic ==
  \A n \in 1..sessionNo :
    Stranded(n) =>
      LET rec == calls[CHOOSE i \in Returned(n, "recordQuizAttempt") : TRUE]
          q == rec.quizId
          advanced == ReturnedOn(q, "updateQuizReview")
          last == CHOOSE i \in advanced : \A j \in advanced : j <= i
      IN Exists(q) =>
           /\ \E i \in 1..Len(quizAttempts) :
                /\ <<quizAttempts[i].id>> = rec.value
                /\ quizAttempts[i].quizId = q
                /\ quizAttempts[i].score = rec.score
                /\ quizAttempts[i].totalQuestions = rec.totalQuestions
                /\ quizAttempts[i].completedAt = rec.at
           /\ quizzes[q].reviewCount = Cardinality(advanced)
           /\ quizzes[q].reviewCount
                < Cardinality(ReturnedOn(q, "recordQuizAttempt"))
           /\ \A i \in advanced : calls[i].session # n
           /\ IF advanced = {}
                THEN /\ quizzes[q].lastReviewedAt = <<>>
                     /\ quizzes[q].nextReviewAt
                          = quizzes[q].createdAt + DayTicks
                ELSE /\ quizzes[q].lastReviewedAt = <<calls[last].at>>
                     /\ quizzes[q].nextReviewAt > calls[last].at

\* C16 witness: the first session stopped between the two calls; the second
\* one recorded its own attempt and advanced the schedule once: two attempts
\* are stored and reviewCount is 1.
TwoCallsWitness ==
  /\ sessionNo = 2
  /\ pc = "done"
  /\ Stranded(1)
  /\ Len(calls) = 3
  /\ Len(quizAttempts) = 2
  /\ Exists(calls[1].quizId)
  /\ quizzes[calls[1].quizId].reviewCount = 1

\* C20: a session awaits recordQuizAttempt at most once and updateQuizReview
\* at most once, also when one of them threw, and the reviewCount of a quiz is
\* the number of sessions whose updateQuizReview on it returned: no session
\* adds more than 1.
NoRetries ==
  /\ \A n \in 1..sessionNo :
       /\ Cardinality(CallsOf(n, "recordQuizAttempt")) <= 1
       /\ Cardinality(CallsOf(n, "updateQuizReview")) <= 1
  /\ \A q \in DOMAIN quizzes :
       /\ quizzes[q].reviewCount
            = Cardinality(ReturnedOn(q, "updateQuizReview"))
       /\ quizzes[q].reviewCount
            = Cardinality({n \in 1..sessionNo :
                             \E i \in Returned(n, "updateQuizReview") :
                               calls[i].quizId = q})
  /\ pc = "caught" => /\ calls # <<>>
                      /\ ~calls[Len(calls)].ok
                      /\ calls[Len(calls)].session = sessionNo

\* C20 witness: updateQuizReview threw and another page has run a mutation
\* since; the session has made the two calls once each, and the quiz exists
\* and was not advanced.
NoRetriesWitness ==
  /\ pc = "caught"
  /\ response.op = "deleteQuiz"
  /\ Len(calls) = 2
  /\ calls[2].op = "updateQuizReview" /\ ~calls[2].ok
  /\ Exists(calls[2].quizId)
  /\ quizzes[calls[2].quizId].reviewCount = 0

\* ------------------------------------------------ claims: the interval
\* the scores a run of updateQuizReview is compared with: what the same run
\* would have stored for another score
ComparedScores == -10..21
\* the interval the run on quiz with these arguments stores
IntervalFor(quiz, score, totalQuestions) ==
  ReviewPatch(quiz, score, totalQuestions, now).nextReviewAt - now

\* C21 as claimed: for the reviewCount r a run of updateQuizReview read and
\* its totalQuestions, no higher score gives a shorter interval and no lower
\* score a longer one than the score of the run; and in the high band and in
\* the mid band the same arguments give a longer interval at r + 1.
IntervalMonotone ==
  [][ReviewReturned =>
       LET q == response'.quizId
           score == response'.score
           totalQuestions == response'.totalQuestions
           applied == quizzes'[q].nextReviewAt - now
           older == [quizzes[q] EXCEPT !.reviewCount = @ + 1]
       IN /\ \A other \in ComparedScores :
               /\ other >= score
                    => IntervalFor(quizzes[q], other, totalQuestions) >= applied
               /\ other <= score
                    => IntervalFor(quizzes[q], other, totalQuestions) <= applied
          /\ applied # DayTicks
               => IntervalFor(older, score, totalQuestions) > applied]_vars

\* C22: every existing item has a nextReviewAt, a time; its lastReviewedAt is
\* absent exactly when its reviewCount is 0, and it is present, a time,
\* exactly when a run of updateQuizReview on the item has returned.
LastReviewedIffReviewed ==
  \A q \in DOMAIN quizzes :
    /\ "nextReviewAt" \in DOMAIN quizzes[q]
    /\ quizzes[q].nextReviewAt \in Nat
    /\ quizzes[q].lastReviewedAt = <<>> <=> quizzes[q].reviewCount = 0
    /\ quizzes[q].lastReviewedAt # <<>> <=> advances[q] # <<>>
    /\ quizzes[q].lastReviewedAt # <<>>
         => /\ Len(quizzes[q].lastReviewedAt) = 1
            /\ quizzes[q].lastReviewedAt[1] \in Nat

\* C22 witness: a second session has recorded its attempt on a quiz the first
\* session advanced and has not advanced it yet: two attempts are stored, the
\* quiz has reviewCount 1 and a lastReviewedAt.
LastReviewedWitness ==
  /\ sessionNo = 2
  /\ pc = "update"
  /\ Len(quizAttempts) = 2
  /\ Exists(quizState.quizId[2])
  /\ quizzes[quizState.quizId[2]].reviewCount = 1
  /\ quizzes[quizState.quizId[2]].lastReviewedAt = <<now>>

\* C23 as claimed: the quizId of every stored attempt is the _id of an
\* existing quiz, also when the quiz of a session in progress is deleted from
\* another page.
AttemptsResolve ==
  \A i \in 1..Len(quizAttempts) : Exists(quizAttempts[i].quizId)

\* the attempts stored for a quiz
AttemptsOf(quizId) ==
  {i \in 1..Len(quizAttempts) : quizAttempts[i].quizId = quizId}
\* a session, running or over, got its attempt on the quiz recorded and has
\* not awaited updateQuizReview
BetweenCalls(quizId) ==
  \E n \in 1..sessionNo :
    /\ \E i \in Returned(n, "recordQuizAttempt") : calls[i].quizId = quizId
    /\ CallsOf(n, "updateQuizReview") = {}
\* an updateQuizReview on the quiz that a session awaited threw
AdvanceFailed(quizId) ==
  \E i \in 1..Len(calls) :
    /\ calls[i].op = "updateQuizReview"
    /\ calls[i].quizId = quizId
    /\ ~calls[i].ok

\* C24: with the quiz page as the only writer of attempts and schedules, an
\* existing quiz has at least as many stored attempts as its reviewCount, and
\* exactly as many when no session stands between its recordQuizAttempt and
\* its updateQuizReview and no updateQuizReview on the quiz threw.
AttemptsCoverReviews ==
  \A q \in DOMAIN quizzes :
    /\ Cardinality(AttemptsOf(q)) >= quizzes[q].reviewCount
    /\ (~BetweenCalls(q) /\ ~AdvanceFailed(q))
         => Cardinality(AttemptsOf(q)) = quizzes[q].reviewCount

\* C24 witness: two sessions took the quiz to the end: two attempts are
\* stored and reviewCount is 2.
AttemptsCoverWitness ==
  /\ sessionNo = 2
  /\ pc = "done"
  /\ Exists(quizState.quizId[2])
  /\ ~BetweenCalls(quizState.quizId[2])
  /\ ~AdvanceFailed(quizState.quizId[2])
  /\ Cardinality(AttemptsOf(quizState.quizId[2])) = 2
  /\ quizzes[quizState.quizId[2]].reviewCount = 2

\* C25: an item that was reviewed has nextReviewAt at least one day after
\* its lastReviewedAt, so nextReviewAt > lastReviewedAt, and
\* getQuizzesDueForReview of its owner at a time before lastReviewedAt + 1 day
\* leaves it out (for the valid scores 10/10, 8/10, 0/10, and for 11/10).
ReviewedNotDueForADay ==
  \A q \in DOMAIN quizzes :
    quizzes[q].lastReviewedAt # <<>> =>
      LET last == quizzes[q].lastReviewedAt[1]
          listed == \E i \in 1..Len(response.value[1]) :
                      response.value[1][i] = q
      IN /\ quizzes[q].nextReviewAt - last >= DayTicks
         /\ quizzes[q].nextReviewAt > last
         /\ (/\ response.op = "getQuizzesDueForReview"
             /\ response.userId = quizzes[q].userId
             /\ now < last + DayTicks) => ~listed

\* C25 witness: an item reviewed at T with a low score (1 day) is not in its
\* owner's list one tick before T + 1 day.
ReviewedNotDueWitness ==
  /\ response.op = "getQuizzesDueForReview"
  /\ 1 \in DOMAIN quizzes
  /\ response.userId = quizzes[1].userId
  /\ quizzes[1].lastReviewedAt # <<>>
  /\ quizzes[1].lastReviewedAt[1] > quizzes[1].createdAt
  /\ quizzes[1].nextReviewAt = quizzes[1].lastReviewedAt[1] + DayTicks
  /\ now = quizzes[1].nextReviewAt - 1
  /\ response.value[1] = <<>>

\* ------------------------------------------------------ claims: statistics
\* C26 as claimed: getUserStats(userId) returns as totalQuizzes the number of
\* quizzes of userId and as totalAttempts the number of attempts of userId,
\* also when the user has quizzes and no attempt.
UserStatsExact ==
  response.op = "getUserStats" =>
    LET stats == response.value[1]
        owned == {q \in DOMAIN quizzes : quizzes[q].userId = response.userId}
        made == {i \in 1..Len(quizAttempts) :
                   quizAttempts[i].userId = response.userId}
    IN /\ stats.totalQuizzes = Cardinality(owned)
       /\ stats.totalAttempts = Cardinality(made)

\* ------------------------------------------- claims: the page's safeguards
\* the quiz of the session has a temporary id (createQuiz threw), or the page
\* knows no user or no quiz id
Unpersisted ==
  /\ pc # "start"
  /\ convexUserId = <<>> \/ quizState.quizId[1] \in {"null", "temp"}

\* C27: no step of a session whose quiz has a temporary id, or whose page
\* knows no user or no quiz id, awaits recordQuizAttempt or updateQuizReview
\* or changes a table: from the failed createQuiz on and when the quiz is
\* finished (handleQuizComplete returns at once); the only steps that change
\* the store meanwhile are deletes from another page.
FallbackWritesNothing ==
  [][(Unpersisted' /\ response'.op # "deleteQuiz")
       => /\ quizzes' = quizzes
          /\ questions' = questions
          /\ quizAttempts' = quizAttempts
          /\ nextQuizId' = nextQuizId
          /\ nextAttemptId' = nextAttemptId
          /\ calls' = calls
          /\ CallsOf(sessionNo', "recordQuizAttempt") = {}
          /\ CallsOf(sessionNo', "updateQuizReview") = {}
          /\ pc' \in {"quiz", "returned", "closed"}]_vars

\* C27 witness: createQuiz threw, the learner answered the quiz under its
\* temporary id and finished it with a correct answer: handleQuizComplete
\* returned, and the tables are empty.
FallbackWitness ==
  /\ pc = "returned"
  /\ quizState.quizId[1] = "temp"
  /\ Finished
  /\ args[1] >= 1
  /\ quizzes = <<>>
  /\ questions = <<>>
  /\ quizAttempts = <<>>
  /\ calls = <<>>

\* the questions of the quiz submitted so far: those before the current one,
\* and the current one once its result is shown
Submitted ==
  localQuizState.currentQuestionIndex + (IF showResult THEN 1 ELSE 0)

\* C28: once QuizScreen is mounted, currentQuestionIndex is within
\* 0..questions.length - 1 and score.correct + score.incorrect is the number
\* of questions submitted; the score changes only by the submission of a
\* question not yet submitted (by 1) and the index only by 1 after the
\* submission, so each question is submitted at most once; onQuizComplete is
\* called only with the last question submitted, and once: its arguments
\* stay until the page is opened anew.
QuizScreenSteps ==
  [][/\ pc' # "start"
          => LET n == Len(localQuizState'.questions)
                 score == localQuizState'.score
             IN /\ localQuizState'.currentQuestionIndex \in 0..(n - 1)
                /\ score.correct >= 0 /\ score.incorrect >= 0
                /\ score.correct + score.incorrect = Submitted'
                /\ Submitted' <= n
                /\ Finished' <=> localQuizState'.isComplete
                /\ Finished' => /\ Submitted' = n
                                /\ localQuizState'.currentQuestionIndex = n - 1
     /\ (pc # "start" /\ sessionNo' = sessionNo)
          => /\ localQuizState'.questions = localQuizState.questions
             /\ localQuizState'.score # localQuizState.score
                  => /\ ~showResult /\ showResult'
                     /\ localQuizState'.currentQuestionIndex
                          = localQuizState.currentQuestionIndex
             /\ localQuizState'.currentQuestionIndex
                  # localQuizState.currentQuestionIndex
                  => /\ showResult /\ ~showResult'
                     /\ localQuizState'.currentQuestionIndex
                          = localQuizState.currentQuestionIndex + 1
             /\ (showResult /\ ~showResult')
                  => localQuizState'.currentQuestionIndex
                       = localQuizState.currentQuestionIndex + 1
             /\ (~Finished /\ Finished')
                  => /\ showResult
                     /\ localQuizState.currentQuestionIndex
                          = Len(localQuizState.questions) - 1
             /\ Finished => args' = args]_vars

\* C28 witness: a quiz of two questions was taken to the end, one answer
\* right and one wrong, and onQuizComplete was called.
QuizScreenWitness ==
  /\ Finished
  /\ Len(localQuizState.questions) = 2
  /\ localQuizState.currentQuestionIndex = 1
  /\ localQuizState.score = [correct |-> 1, incorrect |-> 1]
  /\ localQuizState.isComplete

\* the runs of generateQuiz that called createQuiz, and those under way
CreateQuizCalls == {g \in 1..Len(generations) : generations[g].createQuiz}
UnderWay == {g \in 1..Len(generations) : generations[g].at \in {"api", "create"}}

\* C29: in one mount of the page with one upload at most one run of
\* generateQuiz calls createQuiz and at most one quiz is stored, however the
\* runs of the effect interleave with the backend and createQuiz: at most one
\* run is under way, a run that called createQuiz, or got {success: false},
\* is the last one, and a new run starts only after one that threw before
\* createQuiz.
GenerationAtMostOnce ==
  /\ Cardinality(CreateQuizCalls) <= 1
  /\ Cardinality(DOMAIN quizzes) <= 1
  /\ nextQuizId <= 2
  /\ Cardinality(UnderWay) <= 1
  /\ \A g \in 1..Len(generations) :
       /\ generations[g].at \in {"create", "done", "unsaved", "failed"}
            => g = Len(generations)
       /\ g < Len(generations)
            => generations[g].at = "thrown" /\ ~generations[g].createQuiz
  /\ QuizGenerated => Cardinality(CreateQuizCalls) = 1

\* C29 witness: the first run threw before createQuiz, the second one
\* stored the quiz, and the learner took it to the end with the effect free
\* to run all along: one quiz is stored.
GenerationWitness ==
  /\ Len(generations) = 2
  /\ generations[1].at = "thrown"
  /\ generations[2].at = "done"
  /\ pc = "done"
  /\ Cardinality(DOMAIN quizzes) = 1
  /\ Len(quizAttempts) = 1

\* ------------------------------------------------------ claims: questions
\* C30: getQuizWithQuestions of an existing quiz returns the questions its
\* createQuiz was given, as many and in the same order, the i-th with
\* orderIndex i - 1, whatever was created or deleted in between; for an id
\* without document (not handed out, or deleted) it returns null.
QuestionsRoundTrip ==
  response.op = "getQuizWithQuestions" =>
    LET q == response.quizId
        result == response.value[1]
    IN IF q \in DOMAIN quizzes
         THEN /\ ~result.null
              /\ result.quiz = <<quizzes[q]>>
              /\ Len(result.questions) = Len(requested[q])
              /\ \A i \in 1..Len(result.questions) :
                   /\ result.questions[i].questionText = requested[q][i]
                   /\ result.questions[i].orderIndex = i - 1
                   /\ result.questions[i].quizId = q
         ELSE result.null

\* C30 witness: the second quiz, created with three questions after a quiz
\* of two that still exists, is read back in the order given.
QuestionsRoundTripWitness ==
  /\ response.op = "getQuizWithQuestions"
  /\ response.quizId = 2
  /\ DOMAIN quizzes = {1, 2}
  /\ requested[1] = <<"qa", "qb">>
  /\ requested[2] = <<"qb", "qa", "qb">>
  /\ Len(response.value[1].questions) = 3
  /\ response.value[1].questions[1].questionText = "qb"
  /\ response.value[1].questions[2].questionText = "qa"
  /\ response.value[1].questions[3].orderIndex = 2

====
